---- MODULE Spec2Model ----
(***************************************************************************)
(* Penalty accrual engine of the rental billing backend                    *)
(* (backend/services/penaltyService.js, class PenaltyService).             *)
(*                                                                         *)
(* Instants are JavaScript Date values: integers counting milliseconds.    *)
(* Money is an integer number of rupees.                                   *)
(***************************************************************************)
EXTENDS Integers, Sequences, FiniteSets, TLC

----------------------------------------------------------------------------
(* Bounds of the model *)

\* the instants of the model span day 0 .. day MaxDay
MaxDay == 3
\* no payment is recorded that would raise paidAmount above MaxPaid
MaxPaid == 1100
\* no adjustment is made that would raise a penalty above MaxPenalty
MaxPenalty == 100
\* the clock of the verification codes runs from 0 to MaxWindows validity
\* windows of a code
MaxWindows == 2
\* no more than MaxTokens verification codes are issued
MaxTokens == 2

----------------------------------------------------------------------------
(* Program constants *)

\* this.PENALTY_RATE = 50
PENALTY_RATE == 50
\* 1000 * 60 * 60 * 24, the divisor of diffInMs
MS_PER_DAY == 1000 * 60 * 60 * 24
\* penalty.appliedDate of a bill no penalty was applied to
NoDate == -1
\* 15 * 60 * 1000, the validity of a verification code: expiryTime is the
\* instant of issue plus this
CODE_VALIDITY_MS == 15 * 60 * 1000
\* 15 * 60 * 1000, the extra time isCodeVerified and cleanupExpiredCodes
\* allow after expiryTime
EXTRA_MS == 15 * 60 * 1000
\* maxAttempts of a stored verification code
MAX_ATTEMPTS == 3
\* the 30 minutes isCodeVerified allows for the password reset, counted from
\* the issue of the code
RESET_WINDOW_MS == 30 * 60 * 1000

----------------------------------------------------------------------------
(* Input sets *)

\* the bills of the store, by id
Bills == {1, 2}

\* instants at the start of a day and one millisecond before the end of a day,
\* from the start of day 1 to the start of day MaxDay
Offsets == {0, MS_PER_DAY - 1}
Times ==
    {t \in {d * MS_PER_DAY + o : d \in 1..MaxDay, o \in Offsets} :
        t <= MaxDay * MS_PER_DAY}

\* the due date bill b is created with: the start of day 1 for bill 1, one
\* millisecond before the start of day 2 for bill 2
DueDateOf(b) == IF b = 1 THEN MS_PER_DAY ELSE 2 * MS_PER_DAY - 1
\* the amount bill b is created with
BaseAmountOf(b) == 1000
\* amounts of one recorded payment
PayAmounts == {500, 1050}

VARIABLES
    store,              \* the Bill collection: bill id -> bill document
    broadcastToClients, \* this.broadcastToClients is set (not null)
    result,             \* what the last call returned (or that it threw) and emitted;
                        \* heldChanged: the call threw and left the bill object it
                        \* was given different from the stored document
    batch,              \* the applyMonthlyPenalties in flight when its awaits are
                        \* steps of their own: currentDate, the documents Bill.find
                        \* returned and are still to be handled, the counters
    penaltyCall,        \* the applyPenaltyToBill in flight when its awaits are steps
                        \* of their own: where it stands (pc), the bill and instant
                        \* it was given, what its notification has done so far;
                        \* changed: its save changed the stored bill
    verificationCodes,  \* emailService's verificationCodes Map, for one e-mail
                        \* address: the entry stored for it, or NoEntry
    clock,              \* what new Date() and Date.now() return
    resetTokens,        \* how many reset tokens generateResetToken has produced
    answer,             \* what the last call of sendVerificationCode, verifyCode
                        \* or isCodeVerified was given and returned
    wrongCodeCalls      \* how many verifyCode calls were given the reset token of
                        \* the stored entry and another code than the stored one
                        \* since that code was issued, counted up to MAX_ATTEMPTS

vars ==
    <<store, broadcastToClients, result, batch, penaltyCall,
      verificationCodes, clock, resetTokens, answer, wrongCodeCalls>>

----------------------------------------------------------------------------
(* Pure helpers *)

Max(a, b) == IF a >= b THEN a ELSE b

\* Math.floor(x / d) for a divisor d > 0
Floor(x, d) == x \div d

\* DaysOverdue rounding up: Math.ceil in place of Math.floor
DaysOverdueCeil(currentDate, dueDate) ==
    0 - Floor(dueDate - currentDate, MS_PER_DAY)

\* DaysOverdue with the operands of the subtraction swapped
DaysOverdueSwapped(currentDate, dueDate) ==
    Floor(dueDate - currentDate, MS_PER_DAY)

\* const diffInMs = currentDate - dueDate;
\* const daysOverdue = Math.floor(diffInMs / (1000 * 60 * 60 * 24))
DaysOverdue(currentDate, dueDate) == Floor(currentDate - dueDate, MS_PER_DAY)

\* const penaltyAmount = daysOverdue * this.PENALTY_RATE
PenaltyAmount(daysOverdue) == daysOverdue * PENALTY_RATE

\* StoredPenalty adding the new amount to the penalty the bill already has
StoredPenaltySummed(bill, penaltyAmount, daysOverdue, currentDate) ==
    [amount |-> bill.penalty.amount + penaltyAmount, days |-> daysOverdue,
     appliedDate |-> currentDate]

\* bill.penalty.amount = penaltyAmount; bill.penalty.days = daysOverdue;
\* bill.penalty.appliedDate = currentDate
StoredPenalty(bill, penaltyAmount, daysOverdue, currentDate) ==
    [amount |-> penaltyAmount, days |-> daysOverdue, appliedDate |-> currentDate]

\* TotalAmount adding the penalty to the total the bill already has
TotalOnTotal(bill, penaltyAmount) == bill.totalAmount + penaltyAmount

\* bill.totalAmount = bill.originalAmount + penaltyAmount
TotalAmount(bill, penaltyAmount) == bill.originalAmount + penaltyAmount

\* RemainingAmount without the clamp at 0
RemainingNoClamp(totalAmount, paidAmount) == totalAmount - paidAmount

\* bill.remainingAmount = Math.max(0, bill.totalAmount - bill.paidAmount)
RemainingAmount(totalAmount, paidAmount) == Max(0, totalAmount - paidAmount)

\* StatusStep moving a partially paid bill to overdue as well
StatusStepAlsoPartial(status) ==
    IF status \in {"pending", "partially_paid"} THEN "overdue" ELSE status

\* if (bill.status === 'pending') bill.status = 'overdue'
StatusStep(status) == IF status = "pending" THEN "overdue" ELSE status

\* SkipReason comparing with < : a bill is handled from its due instant on
SkipReasonFromDue(bill, currentDate) ==
    IF bill.status = "paid" THEN "Already paid"
    ELSE IF currentDate < bill.dueDate THEN "Not overdue yet"
    ELSE ""

\* SkipReason without the check for paid bills
SkipReasonNoPaid(bill, currentDate) ==
    IF currentDate <= bill.dueDate THEN "Not overdue yet" ELSE ""

\* the reason applyPenaltyToBill returns early with, "" when it goes on
SkipReason(bill, currentDate) ==
    IF bill.status = "paid" THEN "Already paid"
    ELSE IF currentDate <= bill.dueDate THEN "Not overdue yet"
    ELSE ""

\* Penalized with the base overwritten by the new total
PenalizedOverwritesBase(bill, currentDate) ==
    LET daysOverdue == DaysOverdue(currentDate, bill.dueDate)
        penaltyAmount == PenaltyAmount(daysOverdue)
        totalAmount == TotalAmount(bill, penaltyAmount)
    IN [bill EXCEPT
          !.penalty = StoredPenalty(bill, penaltyAmount, daysOverdue, currentDate),
          !.originalAmount = totalAmount,
          !.totalAmount = totalAmount,
          !.remainingAmount = RemainingAmount(totalAmount, bill.paidAmount),
          !.status = StatusStep(bill.status)]

\* the bill document as applyPenaltyToBill leaves it before bill.save()
Penalized(bill, currentDate) ==
    LET daysOverdue == DaysOverdue(currentDate, bill.dueDate)
        penaltyAmount == PenaltyAmount(daysOverdue)
        totalAmount == TotalAmount(bill, penaltyAmount)
    IN [bill EXCEPT
          !.penalty = StoredPenalty(bill, penaltyAmount, daysOverdue, currentDate),
          !.totalAmount = totalAmount,
          !.remainingAmount = RemainingAmount(totalAmount, bill.paidAmount),
          !.status = StatusStep(bill.status)]

\* calculateCurrentPenalty without the check for paid bills
calculateCurrentPenaltyNoPaid(bill, currentDate) ==
    IF currentDate <= bill.dueDate
    THEN [amount |-> 0, days |-> 0, shouldApply |-> FALSE]
    ELSE LET daysOverdue == DaysOverdue(currentDate, bill.dueDate)
         IN [amount |-> PenaltyAmount(daysOverdue), days |-> daysOverdue,
             shouldApply |-> TRUE]

\* calculateCurrentPenalty(bill, currentDate)
calculateCurrentPenalty(bill, currentDate) ==
    IF bill.status = "paid" THEN [amount |-> 0, days |-> 0, shouldApply |-> FALSE]
    ELSE IF currentDate <= bill.dueDate
         THEN [amount |-> 0, days |-> 0, shouldApply |-> FALSE]
    ELSE LET daysOverdue == DaysOverdue(currentDate, bill.dueDate)
         IN [amount |-> PenaltyAmount(daysOverdue), days |-> daysOverdue,
             shouldApply |-> TRUE]

----------------------------------------------------------------------------
(* Initial state: the bills as billing generation creates them *)

NewBill(originalAmount, dueDate) ==
    [originalAmount |-> originalAmount,
     dueDate |-> dueDate,
     penalty |-> [amount |-> 0, days |-> 0, appliedDate |-> NoDate],
     totalAmount |-> originalAmount,
     paidAmount |-> 0,
     remainingAmount |-> originalAmount,
     status |-> "pending"]

NoResult ==
    [op |-> "none", outcome |-> "returned", error |-> "",
     applied |-> FALSE, amount |-> 0, reason |-> "", notified |-> 0,
     processedBills |-> 0, summary |-> FALSE,
     penaltiesApplied |-> 0, calls |-> 0, saveAttempts |-> 0,
     notifyErrors |-> 0, heldChanged |-> FALSE, days |-> 0,
     previousPenalty |-> 0, totalAmount |-> 0]

\* no applyMonthlyPenalties is in flight
NoBatch ==
    [phase |-> "idle", now |-> NoDate, unpaidBills |-> <<>>,
     processedBills |-> 0, penaltyApplied |-> 0, totalPenaltyAmount |-> 0]

\* no applyPenaltyToBill is in flight and none has ended yet
NoCall ==
    [pc |-> "idle", id |-> 0, now |-> NoDate, outcome |-> "none",
     hasEmail |-> FALSE, outstanding |-> 0, changed |-> FALSE,
     inApp |-> "none", broadcast |-> "none", email |-> "none"]

\* verificationCodes.get(email) of an e-mail address that has no entry
NoEntry ==
    [code |-> 0, resetToken |-> 0, expiryTime |-> NoDate, attempts |-> 0,
     maxAttempts |-> 0, verified |-> FALSE, verifiedAt |-> NoDate]

\* no call of the verification functions has been made yet
NoAnswer ==
    [op |-> "none", success |-> FALSE, value |-> "none", error |-> "none",
     remainingAttempts |-> 0, inputCode |-> 0, resetToken |-> 0]

Init ==
    /\ store = [b \in Bills |-> NewBill(BaseAmountOf(b), DueDateOf(b))]
    /\ broadcastToClients \in BOOLEAN
    /\ result = NoResult
    /\ batch = NoBatch
    /\ penaltyCall = NoCall
    /\ verificationCodes = NoEntry
    /\ clock = 0
    /\ resetTokens = 0
    /\ answer = NoAnswer
    /\ wrongCodeCalls = 0

----------------------------------------------------------------------------
(* Actions *)

\* what bill.save() can answer: the write, or a rejection with either error
SaveOutcomes == {"saved", "VersionConflict", "StoreError"}

\* NotifyAttempts with sendPenaltyNotification called before bill.save()
NotifyBeforeSave(saveOutcome) == 1

\* the calls of sendPenaltyNotification in one applyPenaltyToBill that reached
\* bill.save(): it is called after "await bill.save()", so not when that rejects
NotifyAttempts(saveOutcome) == IF saveOutcome = "saved" THEN 1 ELSE 0

\* OutcomeOfNotify with the catch of sendPenaltyNotification rethrowing
NotifyErrorRethrown(notifyFailed) == IF notifyFailed THEN "threw" ELSE "returned"

\* how sendPenaltyNotification ends: its body is one try block whose catch logs
\* the error and returns
OutcomeOfNotify(notifyFailed) == "returned"

\* the calls of bill.save() in one applyPenaltyToBill that reached it: one, the
\* catch block logs and rethrows whatever the error is
SaveAttempts(saveOutcome) == 1

\* applyPenaltyToBill(bill, currentDate) on the stored bill b.  bill.save() writes
\* the document or rejects, in which case the error is rethrown; notifyFailed: a
\* step of sendPenaltyNotification (notification.save(), the broadcast, the
\* e-mail) throws.
ApplyPenaltyToBill(b, currentDate) ==
    LET bill == store[b]
        reason == SkipReason(bill, currentDate)
        call == [NoResult EXCEPT !.op = "apply", !.calls = 1]
    IN /\ IF reason # ""
          THEN /\ result' = [call EXCEPT !.reason = reason]
               /\ UNCHANGED store
          ELSE \E saveOutcome \in SaveOutcomes, notifyFailed \in BOOLEAN :
                 LET doc == Penalized(bill, currentDate)
                     notified == NotifyAttempts(saveOutcome)
                     reached == [call EXCEPT
                                   !.saveAttempts = SaveAttempts(saveOutcome),
                                   !.notified = notified,
                                   !.notifyErrors = IF notifyFailed THEN 1 ELSE 0]
                 IN /\ notifyFailed => notified > 0
                    /\ IF saveOutcome = "saved"
                       THEN /\ store' = [store EXCEPT ![b] = doc]
                            /\ result' =
                                 IF OutcomeOfNotify(notifyFailed) = "returned"
                                 THEN [reached EXCEPT
                                         !.applied = TRUE,
                                         !.penaltiesApplied = 1,
                                         !.amount = PenaltyAmount(
                                             DaysOverdue(currentDate, bill.dueDate))]
                                 ELSE [reached EXCEPT
                                         !.outcome = "threw",
                                         !.error = "NotifyError",
                                         !.heldChanged = doc # bill]
                       ELSE /\ result' = [reached EXCEPT
                                            !.outcome = "threw",
                                            !.error = saveOutcome,
                                            !.heldChanged = doc # bill]
                            /\ UNCHANGED store
       /\ UNCHANGED <<broadcastToClients, batch, penaltyCall,
                    verificationCodes, clock, resetTokens, answer, wrongCodeCalls>>

\* Bill.find({status: {$in: [...]}, dueDate: {$lt: currentDate}})
IsCandidate(bill, currentDate) ==
    /\ bill.status \in {"pending", "partially_paid", "overdue"}
    /\ bill.dueDate < currentDate

\* the orders in which a query may return the bills of S
RECURSIVE Orders(_)
Orders(S) ==
    IF S = {} THEN {<<>>}
    ELSE UNION {{<<b>> \o o : o \in Orders(S \ {b})} : b \in S}

\* the store after the loop of applyMonthlyPenalties has saved the first n bills
RECURSIVE SavedUpTo(_, _, _, _)
SavedUpTo(st, unpaidBills, n, currentDate) ==
    IF n = 0 THEN st
    ELSE LET b == unpaidBills[n]
         IN [SavedUpTo(st, unpaidBills, n - 1, currentDate) EXCEPT
               ![b] = Penalized(st[b], currentDate)]

\* SumAmounts assigning where the loop adds: the amount of the last bill alone
SumAmountsLast(st, unpaidBills, n, currentDate) ==
    IF n = 0 THEN 0
    ELSE PenaltyAmount(DaysOverdue(currentDate, st[unpaidBills[n]].dueDate))

\* totalPenaltyAmount after the first n bills
RECURSIVE SumAmounts(_, _, _, _)
SumAmounts(st, unpaidBills, n, currentDate) ==
    IF n = 0 THEN 0
    ELSE SumAmounts(st, unpaidBills, n - 1, currentDate)
         + PenaltyAmount(DaysOverdue(currentDate, st[unpaidBills[n]].dueDate))

\* applyMonthlyPenalties(), with currentDate what new Date() returns at its start:
\* the batch over every candidate bill.  failAt = 0: every save succeeds;
\* failAt = k: the save of the k-th bill rejects with error, which leaves
\* applyPenaltyToBill and the loop, and applyMonthlyPenalties rethrows it.
\* notifyErrors of the notifications of the saved bills fail.
RunBatch(currentDate) ==
    LET candidates == {b \in Bills : IsCandidate(store[b], currentDate)}
        call == [NoResult EXCEPT !.op = "batch"]
    IN /\ \E unpaidBills \in Orders(candidates) :
          \E failAt \in 0..Len(unpaidBills) :
             LET n == Len(unpaidBills)
                 saved == IF failAt = 0 THEN n ELSE failAt - 1
                 reached == IF failAt = 0 THEN n ELSE failAt
             IN \E notifyErrors \in 0..saved :
                  LET done == [call EXCEPT
                                 !.penaltiesApplied = saved,
                                 !.calls = reached,
                                 !.saveAttempts = reached,
                                 !.notified = saved,
                                 !.notifyErrors = notifyErrors]
                  IN /\ store' = SavedUpTo(store, unpaidBills, saved, currentDate)
                     /\ IF failAt = 0
                        THEN result' = [done EXCEPT
                                          !.applied = n > 0,
                                          !.amount = SumAmounts(store, unpaidBills,
                                                                n, currentDate),
                                          !.processedBills = n,
                                          !.summary = broadcastToClients /\ n > 0]
                        ELSE \E error \in SaveOutcomes \ {"saved"} :
                               result' = [done EXCEPT
                                            !.outcome = "threw",
                                            !.error = error]
       /\ UNCHANGED <<broadcastToClients, batch, penaltyCall,
                    verificationCodes, clock, resetTokens, answer, wrongCodeCalls>>

\* payment recording, outside the engine: raises paidAmount and settles the status
RecordPayment(b, amount) ==
    LET bill == store[b]
        paidAmount == bill.paidAmount + amount
        remainingAmount == Max(0, bill.totalAmount - paidAmount)
    IN /\ bill.status # "paid"
       /\ paidAmount <= MaxPaid
       /\ \E status \in (IF remainingAmount = 0 THEN {"paid"}
                          ELSE IF bill.status = "overdue"
                               THEN {"overdue", "partially_paid"}
                               ELSE {"partially_paid"}) :
             store' = [store EXCEPT ![b] = [bill EXCEPT
                                              !.paidAmount = paidAmount,
                                              !.remainingAmount = remainingAmount,
                                              !.status = status]]
       /\ result' = [NoResult EXCEPT !.op = "payment"]
       /\ UNCHANGED <<broadcastToClients, batch, penaltyCall,
                    verificationCodes, clock, resetTokens, answer, wrongCodeCalls>>

Next ==
    \/ \E b \in Bills, t \in Times : ApplyPenaltyToBill(b, t)
    \/ \E t \in Times : RunBatch(t)
    \/ \E b \in Bills, a \in PayAmounts : RecordPayment(b, a)

Spec == Init /\ [][Next]_vars

----------------------------------------------------------------------------
(* The calls of the engine together with the preview *)

\* a caller asks calculateCurrentPenalty(bill, currentDate) for the stored bill b:
\* result holds what it returns (applied: shouldApply)
CalculateCurrentPenalty(b, currentDate) ==
    LET preview == calculateCurrentPenalty(store[b], currentDate)
    IN /\ result' = [NoResult EXCEPT !.op = "preview",
                                     !.applied = preview.shouldApply,
                                     !.amount = preview.amount,
                                     !.days = preview.days]
       /\ UNCHANGED <<store, broadcastToClients, batch, penaltyCall,
                    verificationCodes, clock, resetTokens, answer, wrongCodeCalls>>

NextPreview ==
    \/ Next
    \/ \E b \in Bills, t \in Times : CalculateCurrentPenalty(b, t)

SpecPreview == Init /\ [][NextPreview]_vars

----------------------------------------------------------------------------
(* applyMonthlyPenalties step by step: other requests run at its awaits *)

\* bill.save() of a document read earlier and changed in memory since: the paths
\* given a new value are written, every other path keeps what the store holds
SaveModified(stored, read, doc) ==
    [stored EXCEPT
       !.penalty = IF doc.penalty # read.penalty THEN doc.penalty ELSE @,
       !.totalAmount =
           IF doc.totalAmount # read.totalAmount THEN doc.totalAmount ELSE @,
       !.remainingAmount =
           IF doc.remainingAmount # read.remainingAmount
           THEN doc.remainingAmount ELSE @,
       !.status = IF doc.status # read.status THEN doc.status ELSE @]

\* const currentDate = new Date(); const unpaidBills = await Bill.find(...)
BatchFetch(currentDate) ==
    /\ batch.phase = "idle"
    /\ \E order \in Orders({b \in Bills : IsCandidate(store[b], currentDate)}) :
          batch' = [NoBatch EXCEPT
                      !.phase = "running",
                      !.now = currentDate,
                      !.unpaidBills = [i \in 1..Len(order) |->
                                         [id |-> order[i], read |-> store[order[i]]]],
                      !.processedBills = Len(order)]
    /\ UNCHANGED <<store, broadcastToClients, result, penaltyCall,
                 verificationCodes, clock, resetTokens, answer, wrongCodeCalls>>

\* one turn of the loop: await this.applyPenaltyToBill(bill), bill being the
\* document Bill.find returned, then the counters.  A rejected save ends the batch.
BatchStep ==
    /\ batch.phase = "running"
    /\ batch.unpaidBills # <<>>
    /\ LET b == Head(batch.unpaidBills).id
           bill == Head(batch.unpaidBills).read
           rest == [batch EXCEPT !.unpaidBills = Tail(@)]
           done == batch.processedBills - Len(batch.unpaidBills)
       IN IF SkipReason(bill, batch.now) # ""
          THEN /\ batch' = rest
               /\ UNCHANGED <<store, result>>
          ELSE \E saveOutcome \in SaveOutcomes :
                 LET doc == Penalized(bill, batch.now)
                 IN IF saveOutcome = "saved"
                    THEN /\ store' = [store EXCEPT
                                        ![b] = SaveModified(store[b], bill, doc)]
                         /\ batch' = [rest EXCEPT
                                        !.penaltyApplied = @ + 1,
                                        !.totalPenaltyAmount = @ + PenaltyAmount(
                                            DaysOverdue(batch.now, bill.dueDate))]
                         /\ UNCHANGED result
                    ELSE /\ \E notifyErrors \in 0..batch.penaltyApplied :
                              result' = [NoResult EXCEPT
                                           !.op = "batch",
                                           !.outcome = "threw",
                                           !.error = saveOutcome,
                                           !.penaltiesApplied = batch.penaltyApplied,
                                           !.calls = done + 1,
                                           !.saveAttempts = done + 1,
                                           !.notified = batch.penaltyApplied,
                                           !.notifyErrors = notifyErrors]
                         /\ batch' = NoBatch
                         /\ UNCHANGED store
    /\ UNCHANGED <<broadcastToClients, penaltyCall,
                 verificationCodes, clock, resetTokens, answer, wrongCodeCalls>>

\* after the loop: the summary broadcast and the value returned
BatchFinish ==
    /\ batch.phase = "running"
    /\ batch.unpaidBills = <<>>
    /\ \E notifyErrors \in 0..batch.penaltyApplied :
          result' = [NoResult EXCEPT
                       !.op = "batch",
                       !.applied = batch.penaltyApplied > 0,
                       !.amount = batch.totalPenaltyAmount,
                       !.processedBills = batch.processedBills,
                       !.summary = broadcastToClients /\ batch.penaltyApplied > 0,
                       !.penaltiesApplied = batch.penaltyApplied,
                       !.calls = batch.processedBills,
                       !.saveAttempts = batch.processedBills,
                       !.notified = batch.penaltyApplied,
                       !.notifyErrors = notifyErrors]
    /\ batch' = NoBatch
    /\ UNCHANGED <<store, broadcastToClients, penaltyCall,
                 verificationCodes, clock, resetTokens, answer, wrongCodeCalls>>

NextRace ==
    \/ \E t \in Times : BatchFetch(t)
    \/ BatchStep
    \/ BatchFinish
    \/ \E b \in Bills, a \in PayAmounts : RecordPayment(b, a)

SpecRace == Init /\ [][NextRace]_vars

----------------------------------------------------------------------------
(* The administrative override adjustPenalty, with applyPenaltyToBill and payments *)

\* the bill ids adjustPenalty is called with: the bills and one id of no bill
BillIds == Bills \cup {0}

\* the deltas adjustPenalty is called with
Deltas == {-100, 50}

\* AdjustedPenalty without the floor at 0
AdjustedPenaltyNoFloor(currentPenalty, delta) == currentPenalty + delta

\* newPenalty = max(0, currentPenalty + delta)
AdjustedPenalty(currentPenalty, delta) == Max(0, currentPenalty + delta)

\* adjustPenalty(billId, delta) -> {previousPenalty, newPenalty, totalAmount}
AdjustPenalty(billId, delta) ==
    /\ IF billId \notin DOMAIN store
       THEN /\ result' = [NoResult EXCEPT !.op = "adjust",
                                          !.outcome = "threw",
                                          !.error = "NotFound"]
            /\ UNCHANGED store
       ELSE LET bill == store[billId]
                newPenalty == AdjustedPenalty(bill.penalty.amount, delta)
                totalAmount == bill.originalAmount + newPenalty
            IN /\ newPenalty <= MaxPenalty
               /\ store' = [store EXCEPT ![billId] = [bill EXCEPT
                     !.penalty = IF newPenalty = 0
                                 THEN [amount |-> 0, days |-> 0,
                                       appliedDate |-> NoDate]
                                 ELSE [@ EXCEPT !.amount = newPenalty],
                     !.totalAmount = totalAmount,
                     !.remainingAmount = Max(0, totalAmount - bill.paidAmount)]]
               /\ result' = [NoResult EXCEPT !.op = "adjust",
                                             !.previousPenalty = bill.penalty.amount,
                                             !.amount = newPenalty,
                                             !.totalAmount = totalAmount]
    /\ UNCHANGED <<broadcastToClients, batch, penaltyCall,
                 verificationCodes, clock, resetTokens, answer, wrongCodeCalls>>

NextAdjust ==
    \/ \E b \in Bills, t \in Times : ApplyPenaltyToBill(b, t)
    \/ \E b \in Bills, a \in PayAmounts : RecordPayment(b, a)
    \/ \E billId \in BillIds, delta \in Deltas : AdjustPenalty(billId, delta)

SpecAdjust == Init /\ [][NextAdjust]_vars

----------------------------------------------------------------------------
(* applyPenaltyToBill step by step: one step per await.  The computation and the
   save of a call are taken with no payment in between, as in Spec; payments
   between the fetch and the save are the matter of SpecRace. *)

\* NotifiesAfter with the notification sent only for a penalty that changed
NotifiesOnChange(bill, doc) == doc.penalty.amount # bill.penalty.amount

\* whether sendPenaltyNotification is called once bill.save() has resolved, bill
\* being the document before and doc after the assignments: always
NotifiesAfter(bill, doc) == TRUE

\* OutstandingOf with the amount outstanding before the penalty
OutstandingBefore(bill, doc) == bill.remainingAmount

\* "Total outstanding" of the notification message and totalOutstanding of the
\* e-mail: bill.remainingAmount of the document that was saved
OutstandingOf(bill, doc) == doc.remainingAmount

\* EmailWanted without the test of bill.tenant.email
EmailAlways(hasEmail) == TRUE

\* if (bill.tenant.email): the late-fee e-mail is sent to tenants with an address
EmailWanted(hasEmail) == hasEmail

\* where sendPenaltyNotification stands after the broadcast
EmailStep(hasEmail) == IF EmailWanted(hasEmail) THEN "email" ELSE "return"

\* applyPenaltyToBill(bill, currentDate) up to "await bill.save()": the early
\* returns, else the assignments in memory and the save under way
CallStart(b, currentDate) ==
    /\ penaltyCall.pc = "idle"
    /\ penaltyCall' =
          IF SkipReason(store[b], currentDate) # ""
          THEN [NoCall EXCEPT !.id = b, !.now = currentDate, !.outcome = "skipped"]
          ELSE [NoCall EXCEPT !.id = b, !.now = currentDate, !.pc = "save"]
    /\ UNCHANGED <<store, broadcastToClients, result, batch,
                 verificationCodes, clock, resetTokens, answer, wrongCodeCalls>>

\* bill.save() settles.  Rejected: the catch rethrows.  Resolved: the stored bill
\* is the document, and sendPenaltyNotification builds the notification (with the
\* amount outstanding) and starts notification.save().  hasEmail: the tenant of
\* the bill has an e-mail address.
BillSave ==
    /\ penaltyCall.pc = "save"
    /\ LET bill == store[penaltyCall.id]
           doc == Penalized(bill, penaltyCall.now)
       IN \E saveOutcome \in SaveOutcomes, hasEmail \in BOOLEAN :
            IF saveOutcome = "saved"
            THEN /\ store' = [store EXCEPT ![penaltyCall.id] = doc]
                 /\ penaltyCall' =
                       IF NotifiesAfter(bill, doc)
                       THEN [penaltyCall EXCEPT
                               !.pc = "inapp",
                               !.changed = doc # bill,
                               !.hasEmail = hasEmail,
                               !.outstanding = OutstandingOf(bill, doc)]
                       ELSE [penaltyCall EXCEPT !.pc = "return",
                                                !.changed = doc # bill]
            ELSE /\ ~hasEmail
                 /\ penaltyCall' = [penaltyCall EXCEPT
                                      !.pc = "idle", !.outcome = "threw"]
                 /\ UNCHANGED store
    /\ UNCHANGED <<broadcastToClients, result, batch,
                 verificationCodes, clock, resetTokens, answer, wrongCodeCalls>>

\* await notification.save() settles; rejected: the catch of
\* sendPenaltyNotification logs, and applyPenaltyToBill goes on to return
NotificationSave ==
    /\ penaltyCall.pc = "inapp"
    /\ \E ok \in BOOLEAN :
          penaltyCall' =
            IF ok
            THEN [penaltyCall EXCEPT
                    !.inApp = "saved",
                    !.pc = IF broadcastToClients THEN "broadcast"
                           ELSE EmailStep(penaltyCall.hasEmail)]
            ELSE [penaltyCall EXCEPT !.inApp = "failed", !.pc = "return"]
    /\ UNCHANGED <<store, broadcastToClients, result, batch,
                 verificationCodes, clock, resetTokens, answer, wrongCodeCalls>>

\* await Notification.findById(...).populate(...) settles and the
\* NEW_NOTIFICATION broadcast is made; a failure goes to the catch
NotificationBroadcast ==
    /\ penaltyCall.pc = "broadcast"
    /\ \E ok \in BOOLEAN :
          penaltyCall' =
            IF ok
            THEN [penaltyCall EXCEPT !.broadcast = "sent",
                                     !.pc = EmailStep(penaltyCall.hasEmail)]
            ELSE [penaltyCall EXCEPT !.broadcast = "failed", !.pc = "return"]
    /\ UNCHANGED <<store, broadcastToClients, result, batch,
                 verificationCodes, clock, resetTokens, answer, wrongCodeCalls>>

\* await emailService.sendLateFeeNotification(...) settles: it catches its own
\* errors and resolves with success true or false
SendLateFeeNotification ==
    /\ penaltyCall.pc = "email"
    /\ \E success \in BOOLEAN :
          penaltyCall' = [penaltyCall EXCEPT
                            !.email = IF success THEN "sent" ELSE "failed",
                            !.pc = "return"]
    /\ UNCHANGED <<store, broadcastToClients, result, batch,
                 verificationCodes, clock, resetTokens, answer, wrongCodeCalls>>

\* return { applied: true, amount: penaltyAmount }
CallReturn ==
    /\ penaltyCall.pc = "return"
    /\ penaltyCall' = [penaltyCall EXCEPT !.pc = "idle", !.outcome = "applied"]
    /\ UNCHANGED <<store, broadcastToClients, result, batch,
                 verificationCodes, clock, resetTokens, answer, wrongCodeCalls>>

\* a payment recorded while no call is between its start and its save
PaymentOutsideSave(b, amount) ==
    /\ penaltyCall.pc # "save"
    /\ RecordPayment(b, amount)

NextCall ==
    \/ \E b \in Bills, t \in Times : CallStart(b, t)
    \/ BillSave
    \/ NotificationSave
    \/ NotificationBroadcast
    \/ SendLateFeeNotification
    \/ CallReturn
    \/ \E b \in Bills, a \in PayAmounts : PaymentOutsideSave(b, a)

SpecCall == Init /\ [][NextCall]_vars

\* the store answers every save and the engine runs when it can; whether and when
\* the notifier (notification store, e-mail transport) answers is not known
SpecCallFair == SpecCall /\ WF_vars(BillSave) /\ WF_vars(CallReturn)

----------------------------------------------------------------------------
(* The verification codes of emailService (backend/services/emailService.js):
   sendVerificationCode, verifyCode, isCodeVerified, cleanupExpiredCodes and the
   passing of time, for one e-mail address *)

\* the instants the clock takes: the multiples of the validity of a code, and
\* one millisecond before and after each
Instants ==
    {t \in {k * CODE_VALIDITY_MS + o : k \in 0..MaxWindows, o \in {-1, 0, 1}} :
        t >= 0}

\* the codes generateVerificationCode produces and callers supply
Codes == {1, 2}

\* the reset tokens a caller can supply: those produced so far, and 0, a token
\* that was never produced
KnownTokens == 0..resetTokens

\* new Date() > stored.expiryTime
CodeExpiredAfterExtra(stored, now) == now > stored.expiryTime + EXTRA_MS
CodeExpired(stored, now) == now > stored.expiryTime

\* stored.attempts >= stored.maxAttempts
AttemptsExhaustedLate(stored) == stored.attempts > stored.maxAttempts
AttemptsExhausted(stored) == stored.attempts >= stored.maxAttempts

\* stored.verified && new Date() < verificationExpiry, as JavaScript evaluates
\* it: the left operand when it is falsy (verified was never set: undefined),
\* else the comparison
VerifiedValueInclusive(stored, now) ==
    IF ~stored.verified THEN "undefined"
    ELSE IF now <= stored.expiryTime + EXTRA_MS THEN "true" ELSE "false"
VerifiedValue(stored, now) ==
    IF ~stored.verified THEN "undefined"
    ELSE IF now < stored.expiryTime + EXTRA_MS THEN "true" ELSE "false"

\* time passes
Tick ==
    /\ \E t \in Instants : t > clock /\ clock' = t
    /\ UNCHANGED <<store, broadcastToClients, result, batch, penaltyCall,
                   verificationCodes, resetTokens, answer, wrongCodeCalls>>

\* sendVerificationCode(email): a new code and a new reset token replace the
\* entry of the address, whether or not the e-mail could be sent
SendVerificationCode ==
    /\ resetTokens < MaxTokens
    /\ \E code \in Codes :
          LET resetToken == resetTokens + 1
          IN /\ verificationCodes' =
                   [code |-> code, resetToken |-> resetToken,
                    expiryTime |-> clock + CODE_VALIDITY_MS, attempts |-> 0,
                    maxAttempts |-> MAX_ATTEMPTS, verified |-> FALSE,
                    verifiedAt |-> NoDate]
             /\ resetTokens' = resetToken
             /\ answer' = [NoAnswer EXCEPT !.op = "send", !.success = TRUE,
                                           !.inputCode = code,
                                           !.resetToken = resetToken]
    /\ wrongCodeCalls' = 0
    /\ UNCHANGED <<store, broadcastToClients, result, batch, penaltyCall, clock>>

\* verifyCode(email, inputCode, resetToken)
VerifyCode(inputCode, resetToken) ==
    LET stored == verificationCodes
        failed(error) == [NoAnswer EXCEPT !.op = "verify", !.error = error,
                                          !.inputCode = inputCode,
                                          !.resetToken = resetToken]
    IN /\ IF stored = NoEntry
          THEN /\ answer' = failed("No verification code found")
               /\ UNCHANGED verificationCodes
          ELSE IF stored.resetToken # resetToken
          THEN /\ answer' = failed("Invalid reset session")
               /\ UNCHANGED verificationCodes
          ELSE IF CodeExpired(stored, clock)
          THEN /\ answer' = failed("Verification code has expired")
               /\ verificationCodes' = NoEntry
          ELSE IF AttemptsExhausted(stored)
          THEN /\ answer' = failed("Too many failed attempts")
               /\ verificationCodes' = NoEntry
          ELSE IF stored.code # inputCode
          THEN /\ verificationCodes' =
                     [stored EXCEPT !.attempts = stored.attempts + 1]
               /\ answer' =
                     [failed("Invalid verification code") EXCEPT
                         !.remainingAttempts =
                             stored.maxAttempts - (stored.attempts + 1)]
          ELSE /\ verificationCodes' =
                     [stored EXCEPT !.verified = TRUE, !.verifiedAt = clock]
               /\ answer' = [NoAnswer EXCEPT !.op = "verify", !.success = TRUE,
                                             !.inputCode = inputCode,
                                             !.resetToken = resetToken]
       /\ wrongCodeCalls' =
             IF /\ stored # NoEntry
                /\ stored.resetToken = resetToken
                /\ stored.code # inputCode
                /\ wrongCodeCalls < MAX_ATTEMPTS
             THEN wrongCodeCalls + 1
             ELSE wrongCodeCalls
       /\ UNCHANGED <<store, broadcastToClients, result, batch, penaltyCall,
                      clock, resetTokens>>

\* what isCodeVerified(email, resetToken) returns
IsCodeVerifiedValue(resetToken) ==
    LET stored == verificationCodes
    IN IF stored = NoEntry THEN "false"
       ELSE IF stored.resetToken # resetToken THEN "false"
       ELSE VerifiedValue(stored, clock)

\* isCodeVerified(email, resetToken)
IsCodeVerified(resetToken) ==
    LET value == IsCodeVerifiedValue(resetToken)
    IN /\ answer' = [NoAnswer EXCEPT !.op = "isVerified", !.value = value,
                                     !.resetToken = resetToken]
       /\ UNCHANGED <<store, broadcastToClients, result, batch, penaltyCall,
                      verificationCodes, clock, resetTokens, wrongCodeCalls>>

\* cleanupExpiredCodes(), which a timer calls: it removes an entry more than
\* EXTRA_MS past its expiryTime
CleanupExpiredCodes ==
    /\ verificationCodes # NoEntry
    /\ clock > verificationCodes.expiryTime + EXTRA_MS
    /\ verificationCodes' = NoEntry
    /\ UNCHANGED <<store, broadcastToClients, result, batch, penaltyCall,
                   clock, resetTokens, answer, wrongCodeCalls>>

NextVerify ==
    \/ Tick
    \/ SendVerificationCode
    \/ \E inputCode \in Codes, resetToken \in KnownTokens :
          VerifyCode(inputCode, resetToken)
    \/ \E resetToken \in KnownTokens : IsCodeVerified(resetToken)
    \/ CleanupExpiredCodes

SpecVerify == Init /\ [][NextVerify]_vars

----------------------------------------------------------------------------
(* Properties *)

\* a call of the engine has just ended
EngineResult == result.op \in {"apply", "batch"}

\* C1: in every reachable state every bill has
\* totalAmount = originalAmount + penalty.amount.
C1_TotalIsBasePlusPenalty ==
    \A b \in Bills :
        store[b].totalAmount = store[b].originalAmount + store[b].penalty.amount

\* a penalty was applied on top of a recorded payment
C1_Witness ==
    \E b \in Bills :
        /\ result.op = "apply" /\ result.applied
        /\ store[b].penalty.amount = 2 * PENALTY_RATE
        /\ store[b].paidAmount > 0
        /\ store[b].totalAmount = 1100

C3_ApplyTwiceIsApplyOnce ==
    [][\A b \in Bills, t \in Times :
          ( /\ result.op = "apply" /\ result.applied
            /\ store[b].status # "paid"
            /\ store[b].penalty.appliedDate = t
            /\ ApplyPenaltyToBill(b, t) )
          => /\ store'[b] = store[b]
             /\ result'.outcome = "returned"
                  => result'.applied /\ result'.amount = store[b].penalty.amount]_vars

\* a penalty of two days was just applied to a pending bill, now overdue
C3_Witness ==
    \E b \in Bills :
        /\ result.op = "apply" /\ result.applied /\ result.amount = 100
        /\ store[b].penalty.appliedDate = 3 * MS_PER_DAY
        /\ store[b].penalty.days = 2
        /\ store[b].status = "overdue"


\* C4: applyPenaltyToBill(bill, now) with now <= dueDate returns applied = false
\* with amount 0, changes no bill, attempts no save and emits no notification.
C4_NotDueLeavesBillAlone ==
    [][\A b \in Bills, t \in Times :
          ( /\ t <= store[b].dueDate
            /\ result'.op = "apply"
            /\ ApplyPenaltyToBill(b, t) )
          => /\ store' = store
             /\ result'.outcome = "returned"
             /\ ~result'.applied
             /\ result'.amount = 0
             /\ result'.notified = 0]_vars

\* a call was turned away as not overdue and the bill is as created
C4_Witness ==
    /\ result.op = "apply" /\ result.reason = "Not overdue yet"
    /\ ~result.applied /\ result.notified = 0
    /\ \E b \in Bills : store[b] = NewBill(BaseAmountOf(b), DueDateOf(b))

\* C5: applyPenaltyToBill on a bill whose status is paid, with any now, changes no
\* field of the bill, returns applied = false and emits no notification; the bill
\* is still paid afterwards, so this holds for any number of calls.
C5_PaidBillFrozen ==
    [][\A b \in Bills, t \in Times :
          ( /\ store[b].status = "paid"
            /\ result'.op = "apply"
            /\ ApplyPenaltyToBill(b, t) )
          => /\ store'[b] = store[b]
             /\ result'.outcome = "returned"
             /\ ~result'.applied
             /\ result'.amount = 0
             /\ result'.notified = 0]_vars

\* a call was turned away for a bill that was paid after a penalty
C5_Witness ==
    /\ result.op = "apply" /\ result.reason = "Already paid" /\ ~result.applied
    /\ \E b \in Bills : store[b].status = "paid" /\ store[b].penalty.amount > 0

\* the number of whole days in diff milliseconds, diff >= 0
WholeDays(diff) ==
    CHOOSE d \in 0..(MaxDay + 1) :
        d * MS_PER_DAY <= diff /\ diff < (d + 1) * MS_PER_DAY

\* C6: for an unpaid bill and now > dueDate, an applyPenaltyToBill that returns has
\* recorded penalty.days = floor((now - dueDate) / 1 day) and
\* penalty.amount = penalty.days * 50, and returns applied = true with that amount.
C6_PenaltyIsDaysTimesRate ==
    [][\A b \in Bills, t \in Times :
          ( /\ store[b].status # "paid"
            /\ t > store[b].dueDate
            /\ result'.op = "apply"
            /\ result'.outcome = "returned"
            /\ ApplyPenaltyToBill(b, t) )
          => LET days == WholeDays(t - store[b].dueDate)
             IN /\ result'.applied
                /\ result'.amount = days * 50
                /\ store'[b].penalty.days = days
                /\ store'[b].penalty.amount = days * 50
                /\ store'[b].totalAmount = store[b].originalAmount + days * 50]_vars

\* a bill of 1000 two whole days overdue: days 2, penalty 100, total 1100,
\* pending -> overdue
C6_Witness ==
    /\ result.op = "apply" /\ result.applied /\ result.amount = 100
    /\ \E b \in Bills :
          /\ store[b].penalty.appliedDate - store[b].dueDate >= 2 * MS_PER_DAY
          /\ store[b].penalty.days = 2
          /\ store[b].penalty.amount = 100
          /\ store[b].totalAmount = 1100
          /\ store[b].status = "overdue"

\* C7: whenever a penalty applies (applyPenaltyToBill recorded one, or
\* calculateCurrentPenalty answers shouldApply for the instant it was recorded at),
\* the days overdue are at least 1 and the penalty at least one day's rate.
C7_AppliedDaysAtLeastOne ==
    /\ (result.op = "apply" /\ result.applied) => result.amount >= PENALTY_RATE
    /\ \A b \in Bills :
          store[b].penalty.appliedDate # NoDate
          => /\ store[b].penalty.days >= 1
             /\ store[b].penalty.amount >= PENALTY_RATE
             /\ LET preview == calculateCurrentPenalty(
                                   store[b], store[b].penalty.appliedDate)
                IN preview.shouldApply => preview.days >= 1

\* C8: for an unpaid bill the penalty computed at a later instant after dueDate is
\* at least the one computed at an earlier instant, and an application at an
\* instant not before the previous application never lowers the stored penalty.
C8_PenaltyMonotonic ==
    /\ [](\A b \in Bills, t1 \in Times, t2 \in Times :
            ( /\ store[b].status # "paid"
              /\ store[b].dueDate < t1
              /\ t1 < t2 )
            => calculateCurrentPenalty(store[b], t1).amount
                 <= calculateCurrentPenalty(store[b], t2).amount)
    /\ [][\A b \in Bills :
             ( /\ store[b].penalty.appliedDate # NoDate
               /\ store'[b].penalty.appliedDate >= store[b].penalty.appliedDate )
             => store'[b].penalty.amount >= store[b].penalty.amount]_vars

\* a bill bears the penalty of two days, the largest of the model
C8_Witness ==
    /\ EngineResult /\ result.applied
    /\ \E b \in Bills :
          /\ store[b].status # "paid"
          /\ store[b].penalty.amount = 100
          /\ calculateCurrentPenalty(store[b], 2 * MS_PER_DAY).amount = 50

\* C9: the stored penalty of a bill is the one of its last pass alone:
\* penalty.amount = 50 * floor((now of the last pass - dueDate) / 1 day), whatever
\* passes ran before; the penalty is replaced, never summed.
C9_PenaltyOfLastPassOnly ==
    \A b \in Bills :
        store[b].penalty.appliedDate # NoDate
        => LET days == WholeDays(store[b].penalty.appliedDate - store[b].dueDate)
           IN /\ store[b].penalty.days = days
              /\ store[b].penalty.amount = 50 * days

\* after a batch every bill bears a penalty, bill 1 that of two days
C9_Witness ==
    /\ result.op = "batch" /\ result.outcome = "returned"
    /\ result.processedBills = 2 /\ result.amount = 150
    /\ store[1].penalty.amount = 100
    /\ store[2].penalty.amount = 50

\* C10: an applyPenaltyToBill that applies a penalty moves a pending bill to overdue
\* and leaves a partially_paid or overdue bill in its status, its penalty and
\* amounts updated all the same; no call of the engine sets a status to paid or
\* back to pending.
C10_StatusStep ==
    /\ [][\A b \in Bills, t \in Times :
             (result'.op = "apply" /\ result'.applied /\ ApplyPenaltyToBill(b, t))
             => /\ store[b].status = "pending" => store'[b].status = "overdue"
                /\ store[b].status = "partially_paid"
                      => store'[b].status = "partially_paid"
                /\ store[b].status = "overdue" => store'[b].status = "overdue"
                /\ store'[b].penalty.appliedDate = t
                /\ store'[b].totalAmount
                      = store'[b].originalAmount + store'[b].penalty.amount]_vars
    /\ [][result'.op \in {"apply", "batch"}
             => \A b \in Bills :
                   \/ store'[b].status = store[b].status
                   \/ store[b].status = "pending" /\ store'[b].status = "overdue"]_vars

\* a penalty was applied to a partially paid bill, which is still partially paid
C10_Witness ==
    /\ result.op = "apply" /\ result.applied /\ result.amount = 50
    /\ \E b \in Bills :
          /\ store[b].status = "partially_paid"
          /\ store[b].paidAmount = 500
          /\ store[b].penalty.amount = 50
          /\ store[b].remainingAmount = 550

\* C11 as stated: whenever a penalty is applied to a bill whose status was pending
\* or partially_paid, the status after applyPenaltyToBill is overdue.
C11_PendingOrPartialBecomesOverdue ==
    [][\A b \in Bills, t \in Times :
          ( /\ store[b].status \in {"pending", "partially_paid"}
            /\ result'.op = "apply"
            /\ result'.applied
            /\ ApplyPenaltyToBill(b, t) )
          => store'[b].status = "overdue"]_vars

\* C11 as amended: a pending bill a penalty is applied to is overdue afterwards;
\* a partially_paid bill a penalty is applied to is never moved to overdue.
C11_OnlyPendingBecomesOverdue ==
    [][\A b \in Bills, t \in Times :
          (result'.op = "apply" /\ result'.applied /\ ApplyPenaltyToBill(b, t))
          => (store'[b].status = "overdue"
                <=> store[b].status \in {"pending", "overdue"})]_vars

\* a penalty of two days was applied to a bill paid in part: it is partially_paid
\* still, not overdue
C11_Witness ==
    /\ result.op = "apply" /\ result.applied /\ result.amount = 100
    /\ \E b \in Bills :
          /\ store[b].status = "partially_paid"
          /\ store[b].penalty.days = 2
          /\ store[b].paidAmount = 500
          /\ store[b].remainingAmount = 600

\* C12: if a step of the notification of an applied penalty fails,
\* applyPenaltyToBill still returns applied = true with the penalty amount, no
\* error reaches the caller, and the bill is stored with the new penalty, total,
\* remaining amount and status.
C12_NotifyFailureSwallowed ==
    [][\A b \in Bills, t \in Times :
          ( /\ result'.op = "apply"
            /\ result'.notifyErrors > 0
            /\ ApplyPenaltyToBill(b, t) )
          => /\ result'.outcome = "returned"
             /\ result'.error = ""
             /\ result'.applied
             /\ result'.amount = 50 * WholeDays(t - store[b].dueDate)
             /\ store'[b].penalty.appliedDate = t
             /\ store'[b].penalty.amount = result'.amount
             /\ store'[b].totalAmount = store[b].originalAmount + result'.amount
             /\ store'[b].remainingAmount
                  = Max(0, store'[b].totalAmount - store[b].paidAmount)
             /\ store'[b].status # "pending"]_vars

\* a penalty of one day was applied and stored although its notification failed
C12_Witness ==
    /\ result.op = "apply" /\ result.notifyErrors = 1
    /\ result.outcome = "returned" /\ result.applied /\ result.amount = 50
    /\ \E b \in Bills :
          store[b].penalty.amount = 50 /\ store[b].status = "overdue"

\* the bills Bill.find is asked for at instant t
CandidatesAt(t) ==
    {b \in Bills : /\ store[b].status \in {"pending", "partially_paid", "overdue"}
                   /\ store[b].dueDate < t}

\* C13: a store error or notify error on one bill does not abort the batch: the
\* batch returns a result, every candidate bill is handed to applyPenaltyToBill,
\* and penaltiesApplied counts the bills whose application succeeded.
C13_BatchIsolatesFailures ==
    [][\A t \in Times :
          (result'.op = "batch" /\ RunBatch(t))
          => /\ result'.outcome = "returned"
             /\ result'.calls = Cardinality(CandidatesAt(t))
             /\ result'.penaltiesApplied
                  = Cardinality({b \in CandidatesAt(t) :
                                   store'[b].penalty.appliedDate = t})]_vars

\* C14 as stated: if bill.save() fails, the bill is as before the call in the store
\* and in the bill object the caller holds, and no notification is emitted.
C14_FailedSaveLeavesNoTrace ==
    [][\A b \in Bills, t \in Times :
          ( /\ result'.op = "apply"
            /\ result'.error \in {"VersionConflict", "StoreError"}
            /\ ApplyPenaltyToBill(b, t) )
          => /\ store' = store
             /\ result'.notified = 0
             /\ ~result'.heldChanged]_vars

\* C14 as amended: if bill.save() fails, the stored bill is as before the call, no
\* notification is emitted and the call throws without reporting a penalty. (The
\* bill object the caller holds keeps the values computed for the save.)
C14_FailedSaveLeavesStore ==
    [][\A b \in Bills, t \in Times :
          ( /\ result'.op = "apply"
            /\ result'.error \in {"VersionConflict", "StoreError"}
            /\ ApplyPenaltyToBill(b, t) )
          => /\ store' = store
             /\ result'.notified = 0
             /\ result'.notifyErrors = 0
             /\ result'.outcome = "threw"
             /\ ~result'.applied
             /\ result'.amount = 0]_vars

\* a save failed for a bill one day overdue: the store holds the bill as created,
\* the bill object of the caller does not
C14_Witness ==
    /\ result.op = "apply" /\ result.outcome = "threw"
    /\ result.error = "StoreError"
    /\ result.heldChanged /\ result.notified = 0
    /\ \A b \in Bills : store[b] = NewBill(BaseAmountOf(b), DueDateOf(b))

\* C17: on a version conflict the engine tries the save of that bill again (more
\* saves than bills handled), and a batch does not fail as a whole on it.
C17_ConflictRetried ==
    /\ result.error = "VersionConflict" => result.saveAttempts > result.calls
    /\ result.op = "batch" => result.error # "VersionConflict"

\* C18: a batch emits the summary event exactly when it applied at least one
\* penalty.
C18_SummaryIffPenaltyApplied ==
    result.op = "batch" => (result.summary <=> result.penaltiesApplied > 0)

\* C19: a batch at instant t hands every bill with status pending, partially_paid
\* or overdue and dueDate < t to applyPenaltyToBill once, and leaves every other
\* bill unchanged and without notification.
C19_BatchTouchesExactlyCandidates ==
    [][\A t \in Times :
          (result'.op = "batch" /\ RunBatch(t))
          => /\ result'.calls = Cardinality(CandidatesAt(t))
             /\ result'.notified <= Cardinality(CandidatesAt(t))
             /\ \A b \in Bills \ CandidatesAt(t) : store'[b] = store[b]]_vars

\* the sum of 50 * whole days overdue at t over the bills of S
RECURSIVE SumOfPenalties(_, _)
SumOfPenalties(S, t) ==
    IF S = {} THEN 0
    ELSE LET b == CHOOSE x \in S : TRUE
         IN 50 * WholeDays(t - store[b].dueDate) + SumOfPenalties(S \ {b}, t)

\* C20: what a batch returns agrees with what it did: processedBills is the number
\* of candidate bills, penaltiesApplied the number of them a penalty was applied
\* to (at most processedBills), totalPenaltyAmount the sum of their amounts.
C20_BatchResultConsistent ==
    [][\A t \in Times :
          (result'.op = "batch" /\ result'.outcome = "returned" /\ RunBatch(t))
          => LET applied == {b \in CandidatesAt(t) :
                               store'[b].penalty.appliedDate = t}
             IN /\ result'.processedBills = Cardinality(CandidatesAt(t))
                /\ result'.penaltiesApplied = Cardinality(applied)
                /\ result'.penaltiesApplied <= result'.processedBills
                /\ result'.amount = SumOfPenalties(applied, t)]_vars

\* a batch returned after two bills, one a day overdue and one less than a day
C20_Witness ==
    /\ result.op = "batch" /\ result.outcome = "returned"
    /\ result.processedBills = 2 /\ result.penaltiesApplied = 2
    /\ result.amount = 50
    /\ store[1].penalty.days = 1 /\ store[2].penalty.days = 0

\* the engine step that saves the penalty of bill b, read at the fetch of the batch
EngineSaves(b) ==
    /\ batch.phase = "running"
    /\ batch.unpaidBills # <<>>
    /\ Head(batch.unpaidBills).id = b
    /\ batch'.penaltyApplied = batch.penaltyApplied + 1

\* what bill b may be after an engine pass at instant now and the payments recorded
\* since the pass read it as read, taken one after the other: in stored these
\* payments are recorded.  Either the pass came last, or it came first and the
\* payments were recorded on the penalized bill.
SerialOutcomes(read, stored, now) ==
    LET first == Penalized(read, now)
        remaining == Max(0, first.totalAmount - stored.paidAmount)
    IN {IF stored.status = "paid" THEN stored ELSE Penalized(stored, now)}
       \cup (IF stored = read
             THEN {}
             ELSE {[first EXCEPT !.paidAmount = stored.paidAmount,
                                 !.remainingAmount = remaining,
                                 !.status = status] :
                      status \in (IF remaining = 0
                                  THEN {"paid"}
                                  ELSE {"partially_paid", "overdue"})})

\* C15: whatever payments are recorded between the fetch of a batch and the save of
\* a bill, the save leaves the stored bill as the pass and the payments taken one
\* after the other would: no payment is lost, and remainingAmount and status are
\* not those of the paidAmount and status read at the fetch.
C15_SaveIsSerializable ==
    [][\A b \in Bills :
          EngineSaves(b)
          => /\ store'[b].paidAmount = store[b].paidAmount
             /\ store'[b] \in SerialOutcomes(Head(batch.unpaidBills).read,
                                             store[b], batch.now)]_vars

\* C16: once a bill is stored as paid, no step of the engine, the save of a bill
\* read before the payment included, changes its stored status, penalty,
\* totalAmount or remainingAmount.
C16_PaidAbsorbingInEveryInterleaving ==
    [][\A b \in Bills :
          (store[b].status = "paid" /\ batch' # batch)
          => /\ store'[b].status = "paid"
             /\ store'[b].penalty = store[b].penalty
             /\ store'[b].totalAmount = store[b].totalAmount
             /\ store'[b].remainingAmount = store[b].remainingAmount]_vars

\* C21: calculateCurrentPenalty changes no bill, and it agrees with an
\* applyPenaltyToBill at the same instant that returns: shouldApply is applied, and
\* when true its amount and days are the penalty.amount and penalty.days recorded.
C21_PreviewAgreesWithApply ==
    /\ [][result'.op = "preview" => store' = store]_vars
    /\ [][\A b \in Bills, t \in Times :
             ( /\ result'.op = "apply"
               /\ result'.outcome = "returned"
               /\ ApplyPenaltyToBill(b, t) )
             => LET preview == calculateCurrentPenalty(store[b], t)
                IN /\ preview.shouldApply = result'.applied
                   /\ preview.shouldApply
                        => /\ preview.amount = result'.amount
                           /\ preview.amount = store'[b].penalty.amount
                           /\ preview.days = store'[b].penalty.days
                   /\ ~preview.shouldApply
                        => preview.amount = 0 /\ preview.days = 0]_vars

\* a preview of two days (100) for a bill whose stored penalty is that of one day
C21_Witness ==
    /\ result.op = "preview" /\ result.applied
    /\ result.amount = 100 /\ result.days = 2
    /\ \E b \in Bills :
          /\ store[b].penalty.amount = 50
          /\ store[b].paidAmount = 500
          /\ calculateCurrentPenalty(store[b], 3 * MS_PER_DAY).days = 2

\* C23: no call of the engine (applyPenaltyToBill, the batch, the preview) writes
\* originalAmount or paidAmount: originalAmount keeps its creation value, paidAmount
\* changes by payment recording only and never decreases, and totalAmount is
\* originalAmount plus the penalty.
C23_EngineKeepsBaseAndPaid ==
    /\ [][result'.op \in {"apply", "batch", "preview"}
             => \A b \in Bills :
                   /\ store'[b].originalAmount = store[b].originalAmount
                   /\ store'[b].paidAmount = store[b].paidAmount]_vars
    /\ [][\A b \in Bills : store'[b].paidAmount >= store[b].paidAmount]_vars
    /\ [](\A b \in Bills :
            /\ store[b].originalAmount = BaseAmountOf(b)
            /\ store[b].totalAmount = BaseAmountOf(b) + store[b].penalty.amount)

\* a batch put penalties on two bills, one of them paid in part before
C23_Witness ==
    /\ result.op = "batch" /\ result.penaltiesApplied = 2
    /\ store[1].paidAmount = 500 /\ store[1].penalty.amount = 100
    /\ store[1].totalAmount = 1100 /\ store[1].originalAmount = 1000
    /\ store[2].paidAmount = 0 /\ store[2].penalty.amount = 50

\* the notification of the call in flight or last ended has done something
NotificationActive ==
    \/ penaltyCall.pc \in {"inapp", "broadcast", "email"}
    \/ penaltyCall.inApp # "none"
    \/ penaltyCall.broadcast # "none"
    \/ penaltyCall.email # "none"

\* C22: every applyPenaltyToBill that was started ends (returns or throws), whether
\* or not the notifier ever answers.
C22_CallEndsWithoutNotifier ==
    (penaltyCall.pc # "idle") ~> (penaltyCall.pc = "idle")

\* C25: a notification is emitted only after the save of the bill in the same call
\* succeeded, the amount outstanding it reports is the remainingAmount saved, and a
\* call that returned applied = false or whose save failed emitted none.
C25_NotifyAfterSave ==
    /\ [](NotificationActive
            => /\ penaltyCall.outcome \in {"none", "applied"}
               /\ store[penaltyCall.id].penalty.appliedDate = penaltyCall.now)
    /\ [](penaltyCall.outcome \in {"skipped", "threw"} => ~NotificationActive)
    /\ [][(NotificationActive' /\ ~NotificationActive)
             => /\ penaltyCall.pc = "save"
                /\ store'[penaltyCall.id] = Penalized(store[penaltyCall.id],
                                                       penaltyCall.now)
                /\ penaltyCall'.outstanding
                     = store'[penaltyCall.id].remainingAmount]_vars

\* the e-mail of a penalty of 50 on a bill paid 500 is under way: 550 outstanding
C25_Witness ==
    /\ penaltyCall.pc = "email" /\ penaltyCall.inApp = "saved"
    /\ penaltyCall.outstanding = 550
    /\ store[penaltyCall.id].paidAmount = 500
    /\ store[penaltyCall.id].remainingAmount = 550
    /\ store[penaltyCall.id].penalty.appliedDate = penaltyCall.now

\* C26: every applyPenaltyToBill that returns applied = true has attempted the
\* in-app notification, also when its save changed nothing in the stored bill (a
\* further pass at the same instant): the amounts stay, the notification is sent
\* again.
C26_NotifiedOnEveryPass ==
    /\ [](penaltyCall.outcome = "applied"
            => penaltyCall.inApp \in {"saved", "failed"})
    /\ [][( /\ penaltyCall.pc = "save"
             /\ store[penaltyCall.id].penalty.appliedDate = penaltyCall.now
             /\ penaltyCall'.outcome # "threw" )
             => /\ store' = store
                /\ ~penaltyCall'.changed
                /\ penaltyCall'.pc = "inapp"]_vars

\* a pass that changed nothing in the stored bill has returned, its notification
\* saved
C26_Witness ==
    /\ penaltyCall.outcome = "applied" /\ ~penaltyCall.changed
    /\ penaltyCall.inApp = "saved"
    /\ store[penaltyCall.id].penalty.amount = 100
    /\ store[penaltyCall.id].penalty.appliedDate = penaltyCall.now

\* C27: the e-mail is attempted only after the in-app notification was saved and
\* only for a tenant with an address; an e-mail that failed leaves the saved
\* notification and the bill as they are, and the call returns applied = true.
C27_EmailAfterInAppOnly ==
    /\ []((penaltyCall.pc = "email" \/ penaltyCall.email # "none")
            => penaltyCall.inApp = "saved" /\ penaltyCall.hasEmail)
    /\ [][(penaltyCall.pc = "email" /\ penaltyCall'.email = "failed")
             => /\ store' = store
                /\ penaltyCall'.inApp = "saved"
                /\ penaltyCall'.pc = "return"]_vars
    /\ [][(penaltyCall.pc = "return" /\ penaltyCall' # penaltyCall)
             => penaltyCall'.outcome = "applied" /\ store' = store]_vars

\* a call returned applied = true after its e-mail failed: the notification is
\* saved, the bill bears the penalty
C27_Witness ==
    /\ penaltyCall.outcome = "applied" /\ penaltyCall.email = "failed"
    /\ penaltyCall.inApp = "saved" /\ penaltyCall.hasEmail
    /\ store[penaltyCall.id].penalty.amount = 50
    /\ store[penaltyCall.id].status = "overdue"

\* C24: adjustPenalty(billId, delta) sets the penalty to max(0, penalty + delta),
\* never negative, recomputes totalAmount = baseAmount + newPenalty and
\* remainingAmount = max(0, totalAmount - paidAmount), clears the applied date and
\* the days when the new penalty is 0, and fails with NotFound for an unknown id.
C24_AdjustPenalty ==
    /\ [](\A b \in Bills : store[b].penalty.amount >= 0)
    /\ [][\A billId \in BillIds, delta \in Deltas :
             (result'.op = "adjust" /\ AdjustPenalty(billId, delta))
             => IF billId \in Bills
                THEN LET sum == store[billId].penalty.amount + delta
                         newPenalty == IF sum > 0 THEN sum ELSE 0
                         after == store'[billId]
                     IN /\ after.penalty.amount = newPenalty
                        /\ after.totalAmount = BaseAmountOf(billId) + newPenalty
                        /\ after.remainingAmount
                             = (IF after.totalAmount > after.paidAmount
                                THEN after.totalAmount - after.paidAmount ELSE 0)
                        /\ after.paidAmount = store[billId].paidAmount
                        /\ newPenalty = 0
                             => /\ after.penalty.appliedDate = NoDate
                                /\ after.penalty.days = 0
                        /\ result'.outcome = "returned"
                        /\ result'.amount = newPenalty
                        /\ \A other \in Bills \ {billId} :
                              store'[other] = store[other]
                ELSE /\ result'.outcome = "threw"
                     /\ result'.error = "NotFound"
                     /\ store' = store]_vars

\* a penalty of 100 on a base of 1000 was adjusted by -100: penalty 0, total 1000,
\* applied date cleared
C24_Witness ==
    /\ result.op = "adjust" /\ result.outcome = "returned"
    /\ result.previousPenalty = 100 /\ result.amount = 0
    /\ result.totalAmount = 1000
    /\ \E b \in Bills :
          /\ store[b].penalty = [amount |-> 0, days |-> 0, appliedDate |-> NoDate]
          /\ store[b].totalAmount = 1000
          /\ store[b].status = "overdue"

\* C28: once MAX_ATTEMPTS (3) calls of verifyCode with the reset token of the
\* stored code and a wrong code have been made, no verifyCode call succeeds,
\* whatever code it is given, until sendVerificationCode issues a new code; and
\* such a call, given the reset token of an entry still stored, deletes the entry
C28_AttemptLimit ==
    [][\A inputCode \in Codes, resetToken \in KnownTokens :
          (/\ wrongCodeCalls >= 3
           /\ VerifyCode(inputCode, resetToken))
             => /\ ~answer'.success
                /\ (verificationCodes # NoEntry
                      /\ resetToken = verificationCodes.resetToken)
                      => verificationCodes' = NoEntry]_vars

\* after three wrong codes a fourth call was made before the code expired, and
\* was refused for the attempts; the entry is gone
C28_Witness ==
    /\ wrongCodeCalls = 3
    /\ answer.op = "verify"
    /\ answer.error = "Too many failed attempts"
    /\ answer.resetToken = resetTokens
    /\ verificationCodes = NoEntry

C30_ExpiryAndWrongToken ==
    [][/\ SendVerificationCode
             => verificationCodes'.expiryTime = clock + 15 * 60 * 1000
       /\ \A inputCode \in Codes, resetToken \in KnownTokens :
             (/\ verificationCodes # NoEntry
              /\ VerifyCode(inputCode, resetToken))
                => /\ clock > verificationCodes.expiryTime
                         => /\ ~answer'.success
                            /\ resetToken = verificationCodes.resetToken
                                  => verificationCodes' = NoEntry
                   /\ resetToken # verificationCodes.resetToken
                         => /\ ~answer'.success
                            /\ verificationCodes' = verificationCodes
      ]_vars

\* a call with the entry's reset token, one millisecond after the expiryTime of
\* a code issued at instant 0, was refused as expired and the entry is gone
C30_Witness ==
    /\ answer.op = "verify"
    /\ answer.error = "Verification code has expired"
    /\ answer.resetToken = resetTokens
    /\ clock = CODE_VALIDITY_MS + 1
    /\ verificationCodes = NoEntry

====
